---- MODULE Spec2Model ----
(***************************************************************************)
(* Model of app/renderer/components/menubar.js: the MenubarItem click and  *)
(* mouseover handlers, the Menubar keyboard handler, its listener          *)
(* lifecycle and its re-render gate.                                        *)
(*                                                                         *)
(* The window state (selectedLabel, selectedIndex, contextMenuDetail) is   *)
(* owned by the external store.  A handler reads it through this.props,    *)
(* which stay fixed for the whole handler, and dispatches intents; the     *)
(* store applies the intents in dispatch order and the result flows back   *)
(* as the next props.                                                       *)
(***************************************************************************)
EXTENDS Integers, Sequences, FiniteSets, TLC

VARIABLES
  template,             \* props.template: the ordered top-level entries
  autohide,             \* props.autohide
  lastFocusedSelector,  \* props.lastFocusedSelector
  selectedLabel,        \* props.selectedLabel (store)
  selectedIndex,        \* props.selectedIndex (store)
  contextMenuDetail,    \* props.contextMenuDetail (store)
  mounted,              \* a Menubar instance is mounted
  listeners,            \* keydown listeners of Menubar instances on document
  rendered,             \* the props the last render() gave the MenubarItems
  didRender,            \* the last props change passed shouldComponentUpdate
  lastEvent,            \* the event handled by the last step
  pre,                  \* this.props and the rendered DOM the handler saw
  log                   \* what the last handler called, in call order

vars == <<template, autohide, lastFocusedSelector, selectedLabel, selectedIndex,
          contextMenuDetail, mounted, listeners, rendered, didRender,
          lastEvent, pre, log>>

\* Longest template the model enumerates.
MaxTemplate == 3

-----------------------------------------------------------------------------
(* Values *)

\* JavaScript undefined / null, for a label and for a selector.
NoLabel == "<undefined>"
NoSelector == "<no selector>"

Truthy(s) == s # NoLabel /\ s # NoSelector

\* A submenu entry that showContextMenu has not touched has no wrapped click.
NoClick == [wrapped |-> FALSE, lastFocusedSelector |-> NoSelector]

\* commonMenu.separatorMenuItem
separatorMenuItem ==
  [type |-> "separator", label |-> NoLabel, hasVisible |-> FALSE,
   visible |-> FALSE, click |-> NoClick]

\* A submenu entry without a visible key.
Item(l) ==
  [type |-> "normal", label |-> l, hasVisible |-> FALSE, visible |-> FALSE,
   click |-> NoClick]

\* A submenu entry with an explicit visible flag.
ItemVisible(l, v) ==
  [type |-> "normal", label |-> l, hasVisible |-> TRUE, visible |-> v,
   click |-> NoClick]

FileMenu ==
  <<Item("New"), separatorMenuItem, ItemVisible("Private", FALSE),
    ItemVisible("Open", TRUE), Item("Quit")>>
EditMenu == <<Item("Copy")>>
ViewMenu == <<separatorMenuItem, ItemVisible("Zoom", FALSE)>>

FileEntry == [label |-> "File", submenu |-> FileMenu]
EditEntry == [label |-> "Edit", submenu |-> EditMenu]
ViewEntry == [label |-> "View", submenu |-> ViewMenu]
\* A second entry labelled File, with an empty submenu.
FileAgain == [label |-> "File", submenu |-> <<>>]

Entries == {FileEntry, EditEntry, ViewEntry, FileAgain}

Injective(s) == \A i, j \in DOMAIN s : s[i] = s[j] => i = j

\* Templates: sequences of distinct entries, at most MaxTemplate long.
Templates ==
  { t \in UNION { [1..k -> Entries] : k \in 0..MaxTemplate } : Injective(t) }

\* Templates the host may swap in while the window is open.
HostTemplates == { <<>>, <<EditEntry>>, <<ViewEntry, FileEntry, EditEntry>> }

Selectors == {NoSelector, "webview"}

\* No context menu.
NoDetail ==
  [present |-> FALSE, owner |-> "none", left |-> 0, top |-> 0,
   template |-> <<>>]

\* A context menu some other component of the window opened.
ForeignDetail ==
  [present |-> TRUE, owner |-> "other", left |-> 0, top |-> 0,
   template |-> <<>>]

NoRect == [ok |-> FALSE, left |-> 0, bottom |-> 0]

\* The bounding rectangle of the p-th rendered item of the bar.
RectAt(p) == [ok |-> TRUE, left |-> p, bottom |-> 1]

Keys == {"ENTER", "LEFT", "RIGHT", "UP", "DOWN", "OTHER"}

-----------------------------------------------------------------------------
(* What a handler calls *)

Call(op, label, index, detail) ==
  [op |-> op, label |-> label, index |-> index, detail |-> detail]

stopPropagation == Call("stopPropagation", NoLabel, 0, NoDetail)
preventDefault == Call("preventDefault", NoLabel, 0, NoDetail)
focus == Call("focus", NoLabel, 0, NoDetail)
setContextMenuDetail(detail) == Call("setContextMenuDetail", NoLabel, 0, detail)
setMenubarSelectedLabel(label) == Call("setMenubarSelectedLabel", label, 0, NoDetail)
setSubmenuSelectedIndex(index) == Call("setSubmenuSelectedIndex", NoLabel, index, NoDetail)
clickMenubarSubmenu(label) == Call("clickMenubarSubmenu", label, 0, NoDetail)
resetMenuState == Call("resetMenuState", NoLabel, 0, NoDetail)

IntentOps ==
  {"setContextMenuDetail", "setMenubarSelectedLabel", "setSubmenuSelectedIndex",
   "clickMenubarSubmenu", "resetMenuState"}

\* The intents of a log, in dispatch order.
Intents(lg) == SelectSeq(lg, LAMBDA c : c.op \in IntentOps)

-----------------------------------------------------------------------------
(* The external store: how each intent changes the window state *)

Reduce(s, c) ==
  CASE c.op = "setContextMenuDetail" -> [s EXCEPT !.contextMenuDetail = c.detail]
    [] c.op = "setMenubarSelectedLabel" -> [s EXCEPT !.selectedLabel = c.label]
    [] c.op = "setSubmenuSelectedIndex" -> [s EXCEPT !.selectedIndex = c.index]
    [] c.op = "resetMenuState" ->
         [s EXCEPT !.contextMenuDetail = NoDetail, !.selectedLabel = NoLabel,
                   !.selectedIndex = 0]
    [] OTHER -> s

RECURSIVE ReduceAll(_, _)
ReduceAll(s, cs) ==
  IF cs = <<>> THEN s ELSE ReduceAll(Reduce(s, Head(cs)), Tail(cs))

\* formatUtil.wrappingClamp
wrappingClamp(value, min, max) ==
  IF value > max THEN min ELSE IF value < min THEN max ELSE value

-----------------------------------------------------------------------------
(* Immutable.List lookups, as the component uses them *)

\* List.findIndex by label: the 0-based index of the first match, or -1.
FindIndexByLabel(list, label) ==
  LET hits == { i \in DOMAIN list : list[i].label = label }
  IN  IF hits = {} THEN -1
      ELSE (CHOOSE i \in hits : \A j \in hits : i <= j) - 1

\* List.getIn([index, 'label']): a negative index counts back from the end,
\* an index outside the list gives undefined.
GetLabelAt(list, index) ==
  LET n == Len(list)
      i == IF index < 0 THEN n + index ELSE index
  IN  IF i >= 0 /\ i < n THEN list[i + 1].label ELSE NoLabel

-----------------------------------------------------------------------------
(* showContextMenu *)

showContextMenu(rect, submenu, lfs) ==
  setContextMenuDetail(
    [present |-> TRUE, owner |-> "menubar", left |-> rect.left,
     top |-> rect.bottom,
     template |->
       [i \in DOMAIN submenu |->
          IF submenu[i].type = separatorMenuItem.type
          THEN submenu[i]
          ELSE [submenu[i] EXCEPT
                  !.click = [wrapped |-> TRUE, lastFocusedSelector |-> lfs]]]])

\* The click handler showContextMenu installs on a submenu entry; results is
\* the number of elements lastFocusedSelector matches.
SubmenuItemClick(item, results) ==
  <<preventDefault>>
  \o (IF Truthy(item.click.lastFocusedSelector) /\ results = 1
      THEN <<focus>> ELSE <<>>)
  \o <<clickMenubarSubmenu(item.label)>>

-----------------------------------------------------------------------------
(* MenubarItem; item is the props render() gave it, p the Menubar's props *)

\* Mutant: the toggle test forgets to compare the labels.
IsAlreadySelectedAnySelection(item, p) == Truthy(p.selectedLabel)

\* Mutant: the toggle test is lost, every click selects.
IsAlreadySelectedNever(item, p) == FALSE

\* "If clicking on an already selected item"
IsAlreadySelected(item, p) ==
  LET selected == p.selectedLabel
  IN  Truthy(selected) /\ selected = item.label

MenubarItemOnClick(item, p, rect) ==
  <<stopPropagation>>
      \o (IF IsAlreadySelected(item, p)
          THEN <<setContextMenuDetail(NoDetail), setMenubarSelectedLabel(NoLabel)>>
          ELSE <<setMenubarSelectedLabel(item.label),
                 showContextMenu(rect, item.submenu, item.lastFocusedSelector)>>)

\* Mutant: every mouseover is treated as a click.
MenubarItemOnMouseOverAlwaysClicks(item, p, rect) ==
  MenubarItemOnClick(item, p, rect)

MenubarItemOnMouseOver(item, p, rect) ==
  LET selected == p.selectedLabel
  IN  IF Truthy(selected) /\ selected # item.label
      THEN MenubarItemOnClick(item, p, rect)
      ELSE <<>>

-----------------------------------------------------------------------------
(* Menubar; p is this.props, dom the labels of the rendered items *)

\* null is [ok |-> FALSE]
getTemplateByLabel(p, label) ==
  LET i == FindIndexByLabel(p.template, label)
  IN  IF i = -1 THEN [ok |-> FALSE, submenu |-> <<>>]
      ELSE [ok |-> TRUE, submenu |-> p.template[i + 1].submenu]

selectedTemplate(p) == getTemplateByLabel(p, p.selectedLabel)

\* Mutant: the filter returns the visible flag without asking has('visible').
IsVisibleItemNoHasCheck(element) ==
  IF element.type = separatorMenuItem.type THEN FALSE ELSE element.visible

\* The filter of selectedTemplateItemsOnly.
IsVisibleItem(element) ==
  IF element.type = separatorMenuItem.type THEN FALSE
  ELSE IF element.hasVisible THEN element.visible
  ELSE TRUE

selectedTemplateItemsOnly(p) ==
  SelectSeq(selectedTemplate(p).submenu, IsVisibleItem)

\* Mutant: the size of the whole submenu, separators and hidden entries too.
selectedIndexMaxUnfiltered(p) == Len(selectedTemplate(p).submenu)

selectedIndexMax(p) ==
  LET result == selectedTemplateItemsOnly(p)
  IN  IF Len(result) > 0 THEN Len(result) ELSE 0

getRectByLabel(dom, label) ==
  LET selected == { i \in DOMAIN dom : dom[i] = label }
  IN  IF Cardinality(selected) = 1
      THEN RectAt(CHOOSE i \in selected : TRUE)
      ELSE NoRect

selectedRect(p, dom) == getRectByLabel(dom, p.selectedLabel)

\* Mutant: the menu state is reset before the entry is activated.
OnEnterResetFirst(p) ==
  <<preventDefault>>
  \o (IF selectedTemplate(p).ok
      THEN <<resetMenuState,
             clickMenubarSubmenu(
               GetLabelAt(selectedTemplateItemsOnly(p), p.selectedIndex))>>
      ELSE <<>>)

OnEnter(p) ==
  <<preventDefault>>
  \o (IF selectedTemplate(p).ok
      THEN <<clickMenubarSubmenu(
               GetLabelAt(selectedTemplateItemsOnly(p), p.selectedIndex)),
             resetMenuState>>
      ELSE <<>>)

\* Mutant: the autohide setting is not consulted.
ArrowKeysInertIgnoresAutohide(p) == ~Truthy(p.selectedLabel)

\* The arrow keys do nothing without a selection unless autohide is on.
ArrowKeysInert(p) == ~p.autohide /\ ~Truthy(p.selectedLabel)

\* Mutant: Left moves the same way as Right.
LeftRightStepAlwaysRight(which) == 1

LeftRightStep(which) == IF which = "LEFT" THEN -1 ELSE 1

UpDownStep(which) == IF which = "UP" THEN -1 ELSE 1

\* Mutant: the negation of contextMenuDetail is lost.
FirstUpDownNotNegated(p, dom) ==
  p.contextMenuDetail.present /\ selectedRect(p, dom).ok

\* "First time hitting up/down; popup the context menu"
FirstUpDown(p, dom) == ~p.contextMenuDetail.present /\ selectedRect(p, dom).ok

\* Mutant: the next menu opens whether or not a context menu is displayed.
AutoOpenNextIgnoresContextMenu(p, nextRect) ==
  selectedTemplate(p).ok /\ nextRect.ok

\* "Context menu already being displayed; auto-open the next one"; the
\* props are those the handler started with, so selectedTemplate is the
\* submenu of the label selected before the keydown.
AutoOpenNext(p, nextRect) ==
  p.contextMenuDetail.present /\ selectedTemplate(p).ok /\ nextRect.ok

\* Mutant: a missing selection is not special-cased, -1 is stepped and wrapped.
NextTopIndexStepsFromMinusOne(p, which) ==
  wrappingClamp(
    FindIndexByLabel(p.template, p.selectedLabel) + LeftRightStep(which),
    0, Len(p.template) - 1)

\* Mutant: the step is clamped at the ends instead of wrapped.
NextTopIndexNoWrap(p, which) ==
  LET index == FindIndexByLabel(p.template, p.selectedLabel)
      next == index + LeftRightStep(which)
  IN  IF index = -1 THEN 0
      ELSE IF next < 0 THEN 0
      ELSE IF next > Len(p.template) - 1 THEN Len(p.template) - 1
      ELSE next

\* The 0-based index of the top-level entry Left/Right moves to.
NextTopIndex(p, which) ==
  LET index == FindIndexByLabel(p.template, p.selectedLabel)
  IN  IF index = -1 THEN 0
      ELSE wrappingClamp(
             index + LeftRightStep(which),
             0, Len(p.template) - 1)

OnLeftRight(p, dom, which) ==
  IF ArrowKeysInert(p) THEN <<>>
  ELSE
    <<preventDefault>>
    \o (IF Len(p.template) > 0
        THEN LET nextIndex == NextTopIndex(p, which)
                 nextLabel == GetLabelAt(p.template, nextIndex)
                 nextRect == getRectByLabel(dom, nextLabel)
             IN  <<setMenubarSelectedLabel(nextLabel)>>
                 \o (IF AutoOpenNext(p, nextRect)
                     THEN <<setSubmenuSelectedIndex(0),
                            showContextMenu(
                              nextRect,
                              getTemplateByLabel(p, nextLabel).submenu,
                              p.lastFocusedSelector)>>
                     ELSE <<>>)
        ELSE <<>>)

OnUpDown(p, dom, which) ==
  IF ArrowKeysInert(p) THEN <<>>
  ELSE
    <<preventDefault>>
    \o (IF Truthy(p.selectedLabel) /\ selectedTemplate(p).ok
        THEN IF FirstUpDown(p, dom)
             THEN <<setSubmenuSelectedIndex(0),
                    showContextMenu(selectedRect(p, dom),
                                    selectedTemplate(p).submenu,
                                    p.lastFocusedSelector)>>
             ELSE LET nextIndex ==
                        wrappingClamp(
                          p.selectedIndex + UpDownStep(which),
                          0, selectedIndexMax(p) - 1)
                  IN  <<setSubmenuSelectedIndex(nextIndex)>>
        ELSE <<>>)

onKeyDown(p, dom, which) ==
  CASE which = "ENTER" -> OnEnter(p)
    [] which \in {"LEFT", "RIGHT"} -> OnLeftRight(p, dom, which)
    [] which \in {"UP", "DOWN"} -> OnUpDown(p, dom, which)
    [] OTHER -> <<>>

\* Mutant: any changed prop re-renders.
shouldComponentUpdateAnyProp(p, nextProps) == p # nextProps

shouldComponentUpdate(p, nextProps) == p.selectedLabel # nextProps.selectedLabel

\* What render() hands to the MenubarItems, in template order.
render(p) ==
  [i \in DOMAIN p.template |->
     [label |-> p.template[i].label,
      submenu |-> p.template[i].submenu,
      lastFocusedSelector |-> p.lastFocusedSelector]]

\* The data-label attributes of the rendered items.
Dom(items) == [i \in DOMAIN items |-> items[i].label]

-----------------------------------------------------------------------------
(* Lifecycle: the document's keydown listeners of Menubar instances *)

componentWillMount(ls) == ls + 1

\* Mutant: the listener is left on the document.
componentWillUnmountKeepsListener(ls) == ls

componentWillUnmount(ls) == ls - 1

-----------------------------------------------------------------------------
(* State machine *)

Props ==
  [template |-> template, autohide |-> autohide,
   lastFocusedSelector |-> lastFocusedSelector,
   selectedLabel |-> selectedLabel, selectedIndex |-> selectedIndex,
   contextMenuDetail |-> contextMenuDetail]

Seen == [props |-> Props, items |-> rendered, mounted |-> mounted,
         listeners |-> listeners]

Event(type, which, target) == [type |-> type, which |-> which, target |-> target]

Init ==
  /\ template \in Templates
  /\ autohide \in BOOLEAN
  /\ lastFocusedSelector = "webview"
  /\ selectedLabel = NoLabel
  /\ selectedIndex = 0
  /\ contextMenuDetail = NoDetail
  /\ mounted = FALSE
  /\ listeners = 0
  /\ rendered = <<>>
  /\ didRender = FALSE
  /\ lastEvent = Event("init", "-", 0)
  /\ pre = Seen
  /\ log = <<>>

\* The store takes the intents of lg in order and the new props reach the
\* mounted Menubar, which re-renders when shouldComponentUpdate says so.
Flow(ev, lg, next) ==
  /\ lastEvent' = ev
  /\ pre' = Seen
  /\ log' = lg
  /\ template' = next.template
  /\ autohide' = next.autohide
  /\ lastFocusedSelector' = next.lastFocusedSelector
  /\ selectedLabel' = next.selectedLabel
  /\ selectedIndex' = next.selectedIndex
  /\ contextMenuDetail' = next.contextMenuDetail
  /\ didRender' = (mounted /\ shouldComponentUpdate(Props, next))
  /\ rendered' = IF didRender' THEN render(next) ELSE rendered
  /\ UNCHANGED <<mounted, listeners>>

Mount ==
  /\ ~mounted
  /\ mounted' = TRUE
  /\ listeners' = componentWillMount(listeners)
  /\ rendered' = render(Props)
  /\ didRender' = FALSE
  /\ lastEvent' = Event("mount", "-", 0)
  /\ pre' = Seen
  /\ log' = <<>>
  /\ UNCHANGED <<template, autohide, lastFocusedSelector, selectedLabel,
                 selectedIndex, contextMenuDetail>>

Unmount ==
  /\ mounted
  /\ mounted' = FALSE
  /\ listeners' = componentWillUnmount(listeners)
  /\ rendered' = <<>>
  /\ didRender' = FALSE
  /\ lastEvent' = Event("unmount", "-", 0)
  /\ pre' = Seen
  /\ log' = <<>>
  /\ UNCHANGED <<template, autohide, lastFocusedSelector, selectedLabel,
                 selectedIndex, contextMenuDetail>>

\* The document delivers a keydown to the registered listener, if any.
KeyDown(which) ==
  LET lg == IF listeners > 0 THEN onKeyDown(Props, Dom(rendered), which)
            ELSE <<>>
  IN  Flow(Event("keydown", which, 0), lg, ReduceAll(Props, lg))

Click(i) ==
  /\ mounted
  /\ i \in DOMAIN rendered
  /\ LET lg == MenubarItemOnClick(rendered[i], Props, RectAt(i))
     IN  Flow(Event("click", "-", i), lg, ReduceAll(Props, lg))

MouseOver(i) ==
  /\ mounted
  /\ i \in DOMAIN rendered
  /\ LET lg == MenubarItemOnMouseOver(rendered[i], Props, RectAt(i))
     IN  Flow(Event("mouseover", "-", i), lg, ReduceAll(Props, lg))

\* The user picks entry i of the context menu this component opened.
ContextMenuItemClick(i, results) ==
  /\ contextMenuDetail.present
  /\ i \in DOMAIN contextMenuDetail.template
  /\ contextMenuDetail.template[i].click.wrapped
  /\ LET lg == SubmenuItemClick(contextMenuDetail.template[i], results)
     IN  Flow(Event("menuclick", "-", i), lg, ReduceAll(Props, lg))

HostSetTemplate(t) ==
  /\ t # template
  /\ Flow(Event("props", "template", 0), <<>>, [Props EXCEPT !.template = t])

HostSetAutohide ==
  Flow(Event("props", "autohide", 0), <<>>, [Props EXCEPT !.autohide = ~autohide])

HostSetLastFocusedSelector(s) ==
  /\ s # lastFocusedSelector
  /\ Flow(Event("props", "lastFocusedSelector", 0), <<>>,
          [Props EXCEPT !.lastFocusedSelector = s])

\* Another component opens its own context menu, or closes the open one.
HostSetContextMenuDetail(d) ==
  /\ d # contextMenuDetail
  /\ Flow(Event("props", "contextMenuDetail", 0), <<>>,
          [Props EXCEPT !.contextMenuDetail = d])

Next ==
  \/ Mount
  \/ Unmount
  \/ \E which \in Keys : KeyDown(which)
  \/ \E i \in 1..MaxTemplate : Click(i)
  \/ \E i \in 1..MaxTemplate : MouseOver(i)
  \/ \E i \in 1..Len(FileMenu), results \in 0..2 : ContextMenuItemClick(i, results)
  \/ \E d \in {NoDetail, ForeignDetail} : HostSetContextMenuDetail(d)

\* The window with a fixed template, autohide setting and focused frame.
Spec == Init /\ [][Next]_vars

InitProps ==
  /\ Init
  /\ template \in HostTemplates

NextProps ==
  \/ Next
  \/ \E t \in HostTemplates : HostSetTemplate(t)
  \/ HostSetAutohide
  \/ \E s \in Selectors : HostSetLastFocusedSelector(s)

\* The window whose host also changes the template, the autohide setting and
\* the focused frame while the Menubar is mounted.
SpecProps == InitProps /\ [][NextProps]_vars

-----------------------------------------------------------------------------
(* Reading the last step *)

\* The props the last handler read.
PreProps == pre.props

\* The last step was a keydown of one of ks that reached Menubar.onKeyDown.
KeyHandled(ks) ==
  lastEvent.type = "keydown" /\ lastEvent.which \in ks /\ pre.listeners > 0

\* The last step was a click / a mouseover on a rendered MenubarItem.
Clicked == lastEvent.type = "click"
Target == pre.items[lastEvent.target]

\* The intents of the last handler with operation op, in dispatch order.
Dispatched(op) == SelectSeq(Intents(log), LAMBDA c : c.op = op)

UniqueLabels(t) == \A i, j \in DOMAIN t : t[i].label = t[j].label => i = j

\* The 1-based positions of label l in template t.
PositionsOf(t, l) == { i \in DOMAIN t : t[i].label = l }

\* A context-menu template without the click handlers showContextMenu added.
Shown(detail) ==
  [i \in DOMAIN detail.template |-> [detail.template[i] EXCEPT !.click = NoClick]]

\* detail is an open context menu showing submenu.
Shows(detail, submenu) ==
  /\ detail.present
  /\ Len(detail.template) = Len(submenu)
  /\ \A i \in DOMAIN submenu : Shown(detail)[i] = submenu[i]

-----------------------------------------------------------------------------
(* C1 *)

\* The entry after (Right) or before (Left) position i of n, cyclically.
CycleNext(i, n, which) ==
  IF which = "RIGHT" THEN (IF i = n THEN 1 ELSE i + 1)
  ELSE (IF i = 1 THEN n ELSE i - 1)

\* C1: with a template of n >= 1 uniquely labelled entries and selectedLabel
\* the label of entry i, a Right keydown dispatches set-selected-label exactly
\* once, with the label of entry i+1 (the first entry when i is the last), and
\* a Left keydown with the label of entry i-1 (the last entry when i is the
\* first).
C1_LeftRightCycles ==
  (/\ KeyHandled({"LEFT", "RIGHT"})
   /\ UniqueLabels(PreProps.template)
   /\ PositionsOf(PreProps.template, PreProps.selectedLabel) # {})
  => LET t == PreProps.template
         i == CHOOSE k \in PositionsOf(t, PreProps.selectedLabel) : TRUE
         j == CycleNext(i, Len(t), lastEvent.which)
     IN  Dispatched("setMenubarSelectedLabel")
           = <<setMenubarSelectedLabel(t[j].label)>>

\* [File, Edit, View] with View selected: Right wrapped to File.
C1_WitnessRightWraps ==
  /\ KeyHandled({"RIGHT"})
  /\ PreProps.template = <<FileEntry, EditEntry, ViewEntry>>
  /\ PreProps.selectedLabel = "View"
  /\ selectedLabel = "File"

-----------------------------------------------------------------------------
(* C2 *)

\* C2: a click on the MenubarItem whose label is the current selectedLabel
\* dispatches set-context-menu-detail with no value and set-selected-label
\* with no value and nothing else, so that no label is selected and no
\* context menu is open afterwards.
C2_ClickSelectedCloses ==
  (Clicked /\ Target.label = PreProps.selectedLabel)
  => /\ Intents(log) = <<setContextMenuDetail(NoDetail),
                         setMenubarSelectedLabel(NoLabel)>>
     /\ selectedLabel = NoLabel
     /\ ~contextMenuDetail.present

\* File was selected with its menu open, and a click on File closed both.
C2_WitnessToggleClosed ==
  /\ Clicked
  /\ Target.label = "File"
  /\ PreProps.selectedLabel = "File"
  /\ PreProps.contextMenuDetail.present
  /\ selectedLabel = NoLabel
  /\ ~contextMenuDetail.present

-----------------------------------------------------------------------------
(* C3 *)

\* C3: a click on a MenubarItem whose label is not the current selectedLabel
\* (nothing selected included) dispatches set-selected-label with the item's
\* label and then a context menu at the item's rectangle showing the item's
\* own submenu; afterwards that label is selected and a context menu is open.
C3_ClickOtherSelectsAndOpens ==
  (Clicked /\ Target.label # PreProps.selectedLabel)
  => /\ Len(Intents(log)) = 2
     /\ Intents(log)[1] = setMenubarSelectedLabel(Target.label)
     /\ Intents(log)[2].op = "setContextMenuDetail"
     /\ Shows(Intents(log)[2].detail, Target.submenu)
     /\ Intents(log)[2].detail.left = RectAt(lastEvent.target).left
     /\ Intents(log)[2].detail.top = RectAt(lastEvent.target).bottom
     /\ selectedLabel = Target.label
     /\ Shows(contextMenuDetail, Target.submenu)

\* File was selected and a click on Edit selected Edit and opened Edit's menu.
C3_WitnessSwitched ==
  /\ Clicked
  /\ PreProps.selectedLabel = "File"
  /\ Target.label = "Edit"
  /\ selectedLabel = "Edit"
  /\ Shows(contextMenuDetail, EditMenu)

-----------------------------------------------------------------------------
(* C4 *)

\* The positions of submenu that are no separator and are not flagged
\* visible = false.
KeptPositions(submenu) ==
  { i \in DOMAIN submenu :
      /\ submenu[i].type # "separator"
      /\ ~(submenu[i].hasVisible /\ submenu[i].visible = FALSE) }

\* The k-th smallest member of a set of positions.
Kth(S, k) == CHOOSE i \in S : Cardinality({ j \in S : j <= i }) = k

\* C4: selectedTemplateItemsOnly is the selected submenu in its original
\* order without the separators and without the entries whose visible flag is
\* false; entries without a visible key and entries with visible = true stay.
C4_VisibleItemsOnly ==
  \A p \in {Props, PreProps} :
    selectedTemplate(p).ok
    => LET submenu == selectedTemplate(p).submenu
           items == selectedTemplateItemsOnly(p)
       IN  /\ Len(items) = Cardinality(KeptPositions(submenu))
           /\ \A k \in DOMAIN items :
                items[k] = submenu[Kth(KeptPositions(submenu), k)]

\* Enter on File at index 1 activated Open, the entry after the separator and
\* the hidden entry, and index 2 would be Quit, which has no visible key.
C4_WitnessFileMenuFiltered ==
  /\ KeyHandled({"ENTER"})
  /\ PreProps.selectedLabel = "File"
  /\ selectedTemplate(PreProps).submenu = FileMenu
  /\ PreProps.selectedIndex = 1
  /\ Dispatched("clickMenubarSubmenu") = <<clickMenubarSubmenu("Open")>>

-----------------------------------------------------------------------------
(* C5 *)

\* C5: with a label selected whose submenu exists, no context menu open and
\* the selected item's rectangle resolving, an Up or Down keydown dispatches
\* set-submenu-index 0 and a context menu for the selected submenu at that
\* rectangle, and no other index.
C5_FirstUpDownOpens ==
  (/\ KeyHandled({"UP", "DOWN"})
   /\ PreProps.selectedLabel # NoLabel
   /\ PositionsOf(PreProps.template, PreProps.selectedLabel) # {}
   /\ ~PreProps.contextMenuDetail.present
   /\ Cardinality(PositionsOf(pre.items, PreProps.selectedLabel)) = 1)
  => LET t == PreProps.template
         l == PreProps.selectedLabel
         first == CHOOSE i \in PositionsOf(t, l) : \A j \in PositionsOf(t, l) : i <= j
         at == CHOOSE i \in PositionsOf(pre.items, l) : TRUE
     IN  /\ Len(Intents(log)) = 2
         /\ Intents(log)[1] = setSubmenuSelectedIndex(0)
         /\ Intents(log)[2].op = "setContextMenuDetail"
         /\ Shows(Intents(log)[2].detail, t[first].submenu)
         /\ Intents(log)[2].detail.left = RectAt(at).left
         /\ Intents(log)[2].detail.top = RectAt(at).bottom

\* Edit was selected at a leftover index 2 with no menu open; Up opened Edit's
\* menu at index 0 and did not move the index to 1.
C5_WitnessUpOpens ==
  /\ KeyHandled({"UP"})
  /\ PreProps.selectedLabel = "Edit"
  /\ PreProps.selectedIndex = 2
  /\ ~PreProps.contextMenuDetail.present
  /\ selectedIndex = 0
  /\ Shows(contextMenuDetail, EditMenu)

-----------------------------------------------------------------------------
(* C6 *)

\* The number of visible, non-separator entries of the first entry of
\* template t labelled l.
VisibleCount(t, l) ==
  LET first == CHOOSE i \in PositionsOf(t, l) : \A j \in PositionsOf(t, l) : i <= j
  IN  Cardinality(KeptPositions(t[first].submenu))

\* C6: with a label selected whose submenu exists, a context menu already
\* open and selectedIndex a position of the visible non-separator entries
\* (0 <= selectedIndex < selectedIndexMax, their count), a Down keydown
\* dispatches set-submenu-index selectedIndex+1, or 0 from the last position,
\* and an Up keydown selectedIndex-1, or the last position from 0; it
\* dispatches nothing else.
C6_UpDownMoves ==
  (/\ KeyHandled({"UP", "DOWN"})
   /\ PreProps.selectedLabel # NoLabel
   /\ PositionsOf(PreProps.template, PreProps.selectedLabel) # {}
   /\ PreProps.contextMenuDetail.present
   /\ PreProps.selectedIndex >= 0
   /\ PreProps.selectedIndex
        < VisibleCount(PreProps.template, PreProps.selectedLabel))
  => LET max == VisibleCount(PreProps.template, PreProps.selectedLabel)
         i == PreProps.selectedIndex
         next == IF lastEvent.which = "DOWN"
                 THEN (IF i = max - 1 THEN 0 ELSE i + 1)
                 ELSE (IF i = 0 THEN max - 1 ELSE i - 1)
     IN  Intents(log) = <<setSubmenuSelectedIndex(next)>>

\* File's menu was open at index 0 and Up wrapped to 2, the last of its three
\* visible entries (the submenu has five entries).
C6_WitnessUpWraps ==
  /\ KeyHandled({"UP"})
  /\ PreProps.selectedLabel = "File"
  /\ selectedTemplate(PreProps).submenu = FileMenu
  /\ PreProps.contextMenuDetail.present
  /\ PreProps.selectedIndex = 0
  /\ selectedIndex = 2

-----------------------------------------------------------------------------
(* C7 *)

\* C7: an Enter keydown with a selected template dispatches
\* submenu-item-clicked and then reset-menu-state, once each and nothing
\* else, the first carrying the label at position selectedIndex of the
\* visible non-separator entries; without a selected template (no
\* selectedLabel, or one that is not in the template) it dispatches nothing.
C7_EnterClicksThenResets ==
  KeyHandled({"ENTER"})
  => IF PositionsOf(PreProps.template, PreProps.selectedLabel) # {}
     THEN LET t == PreProps.template
              l == PreProps.selectedLabel
              first == CHOOSE k \in PositionsOf(t, l) :
                         \A j \in PositionsOf(t, l) : k <= j
              submenu == t[first].submenu
              i == PreProps.selectedIndex
          IN  /\ Len(Intents(log)) = 2
              /\ Intents(log)[1].op = "clickMenubarSubmenu"
              /\ (i >= 0 /\ i < Cardinality(KeptPositions(submenu)))
                   => Intents(log)[1]
                        = clickMenubarSubmenu(
                            submenu[Kth(KeptPositions(submenu), i + 1)].label)
              /\ Intents(log)[2] = resetMenuState
     ELSE Intents(log) = <<>>

\* Enter on Edit's only entry: Copy was activated, then the menu state reset.
C7_WitnessEnterOnCopy ==
  /\ KeyHandled({"ENTER"})
  /\ PreProps.selectedLabel = "Edit"
  /\ PreProps.selectedIndex = 0
  /\ Intents(log) = <<clickMenubarSubmenu("Copy"), resetMenuState>>
  /\ selectedLabel = NoLabel

-----------------------------------------------------------------------------
(* C8 *)

\* C8: a Left, Right, Up or Down keydown with autohide off and no label
\* selected calls nothing (no preventDefault, no intent); every other keydown
\* of these keys, and every Enter keydown, calls preventDefault first, before
\* any intent.
C8_PreventDefaultFirst ==
  /\ KeyHandled({"LEFT", "RIGHT", "UP", "DOWN"})
     => IF ~PreProps.autohide /\ PreProps.selectedLabel = NoLabel
        THEN log = <<>>
        ELSE log # <<>> /\ log[1] = preventDefault
  /\ KeyHandled({"ENTER"}) => (log # <<>> /\ log[1] = preventDefault)

\* Down with autohide off and nothing selected: the event was not consumed.
C8_WitnessInertArrow ==
  /\ KeyHandled({"DOWN"})
  /\ ~PreProps.autohide
  /\ PreProps.selectedLabel = NoLabel
  /\ mounted
  /\ Len(PreProps.template) > 0
  /\ log = <<>>

-----------------------------------------------------------------------------
(* C9 *)

\* C9: the document holds the Menubar's keydown listener exactly while the
\* Menubar is mounted: one listener when mounted, none after unmount, and a
\* keydown delivered while it is unmounted calls nothing.
C9_ListenerWhileMounted ==
  /\ listeners = (IF mounted THEN 1 ELSE 0)
  /\ (lastEvent.type = "keydown" /\ ~mounted) => log = <<>>

\* File was selected, the Menubar was unmounted, and an Enter keydown, which
\* a mounted Menubar would have answered, did nothing.
C9_WitnessKeyAfterUnmount ==
  /\ lastEvent = Event("keydown", "ENTER", 0)
  /\ ~mounted
  /\ selectedLabel = "File"
  /\ selectedTemplate(Props).ok
  /\ log = <<>>

-----------------------------------------------------------------------------
(* C10 *)

\* The last step changed the props of a mounted Menubar.
PropsChanged == pre.mounted /\ mounted /\ Props # PreProps

\* C10: on a props change the Menubar re-renders if and only if selectedLabel
\* changed; when only contextMenuDetail, selectedIndex, autohide,
\* lastFocusedSelector or template changed, the items stay as last rendered.
C10_RerenderOnlyOnSelectedLabel ==
  PropsChanged
  => /\ didRender <=> (selectedLabel # PreProps.selectedLabel)
     /\ didRender => rendered = render(Props)
     /\ ~didRender => rendered = pre.items

\* The host replaced the template while File stayed selected: no re-render,
\* and the items on screen are those of the old template.
C10_WitnessStaleTemplate ==
  /\ lastEvent = Event("props", "template", 0)
  /\ PropsChanged
  /\ selectedLabel = "File"
  /\ ~didRender
  /\ rendered # render(Props)

-----------------------------------------------------------------------------
(* C11 *)

\* The last step was a mouseover on a rendered MenubarItem.
Hovered == lastEvent.type = "mouseover"

\* C11: a mouseover on a MenubarItem while some other label is selected calls
\* what a click on that item calls (it selects the item's label and opens a
\* context menu showing the item's submenu); with no label selected, or on the
\* selected item itself, it calls nothing, so it never closes the selection.
C11_HoverSwitchesOpenMenus ==
  Hovered
  => IF PreProps.selectedLabel # NoLabel
        /\ PreProps.selectedLabel # Target.label
     THEN /\ <<stopPropagation>> \o Intents(log)
               = MenubarItemOnClick(Target, PreProps, RectAt(lastEvent.target))
          /\ Len(Intents(log)) = 2
          /\ Intents(log)[1] = setMenubarSelectedLabel(Target.label)
          /\ Intents(log)[2].op = "setContextMenuDetail"
          /\ Shows(Intents(log)[2].detail, Target.submenu)
          /\ selectedLabel = Target.label
          /\ Shows(contextMenuDetail, Target.submenu)
     ELSE /\ log = <<>>
          /\ selectedLabel = PreProps.selectedLabel
          /\ contextMenuDetail = PreProps.contextMenuDetail

\* File's menu was open and the pointer moved over Edit: Edit is selected and
\* its menu is shown.
C11_WitnessHoverSwitched ==
  /\ Hovered
  /\ PreProps.selectedLabel = "File"
  /\ PreProps.contextMenuDetail.present
  /\ Target.label = "Edit"
  /\ selectedLabel = "Edit"
  /\ Shows(contextMenuDetail, EditMenu)

-----------------------------------------------------------------------------
(* C12 *)

\* C12: a Left or Right keydown that is not inert (autohide on, or a
\* selectedLabel that is set) while selectedLabel is absent or labels no
\* template entry dispatches set-selected-label once with the label of the
\* first entry, for Left as for Right; with an empty template it dispatches
\* nothing.
C12_LeftRightFromNoSelection ==
  (/\ KeyHandled({"LEFT", "RIGHT"})
   /\ (PreProps.autohide \/ PreProps.selectedLabel # NoLabel)
   /\ PositionsOf(PreProps.template, PreProps.selectedLabel) = {})
  => IF Len(PreProps.template) > 0
     THEN /\ Dispatched("setMenubarSelectedLabel")
               = <<setMenubarSelectedLabel(PreProps.template[1].label)>>
     ELSE Intents(log) = <<>>

\* Autohide on, nothing selected, template [View, File, Edit]: Left selected
\* View, the first entry, not Edit, the last.
C12_WitnessLeftSelectsFirst ==
  /\ KeyHandled({"LEFT"})
  /\ PreProps.autohide
  /\ PreProps.selectedLabel = NoLabel
  /\ PreProps.template = <<ViewEntry, FileEntry, EditEntry>>
  /\ selectedLabel = "View"

-----------------------------------------------------------------------------
(* C13 *)

\* The last step was a Left/Right keydown that selected a label.
LeftRightSelected ==
  /\ KeyHandled({"LEFT", "RIGHT"})
  /\ Len(Dispatched("setMenubarSelectedLabel")) = 1

\* The label that keydown selected, its submenu (first entry so labelled) and
\* whether exactly one rendered item carries it.
NewLabel == Dispatched("setMenubarSelectedLabel")[1].label
NewSubmenu ==
  LET t == PreProps.template
      first == CHOOSE i \in PositionsOf(t, NewLabel) :
                 \A j \in PositionsOf(t, NewLabel) : i <= j
  IN  t[first].submenu
NewRectResolves == Cardinality(PositionsOf(pre.items, NewLabel)) = 1

\* The keydown dispatched index 0 and a context menu at the new label's
\* rectangle showing the new label's submenu, after the label.
AutoOpened ==
  LET at == CHOOSE i \in PositionsOf(pre.items, NewLabel) : TRUE
  IN  /\ Len(Intents(log)) = 3
      /\ Intents(log)[1] = setMenubarSelectedLabel(NewLabel)
      /\ Intents(log)[2] = setSubmenuSelectedIndex(0)
      /\ Intents(log)[3].op = "setContextMenuDetail"
      /\ Shows(Intents(log)[3].detail, NewSubmenu)
      /\ Intents(log)[3].detail.left = RectAt(at).left
      /\ Intents(log)[3].detail.top = RectAt(at).bottom

\* The keydown dispatched the label and nothing else.
NotAutoOpened == Intents(log) = <<setMenubarSelectedLabel(NewLabel)>>

\* C13 as claimed: the menu of the new label opens exactly when a context
\* menu is already open, the new label has a non-empty submenu and the new
\* label's rectangle resolves.
C13_AsClaimed ==
  LeftRightSelected
  => IF /\ PreProps.contextMenuDetail.present
        /\ NewSubmenu # <<>>
        /\ NewRectResolves
     THEN AutoOpened
     ELSE NotAutoOpened

\* C13, amended: on a Left/Right keydown that selects a label, the handler
\* dispatches set-submenu-index 0 and opens a context menu at the new label's
\* rectangle showing the new label's submenu exactly when a context menu is
\* already open, the label selected before the keydown has an entry in the
\* template, and the new label's rectangle resolves; otherwise it opens no
\* context menu and does not reset the index.  The new label's submenu may
\* be empty.
C13_AutoOpenWhenOldLabelHasTemplate ==
  LeftRightSelected
  => IF /\ PreProps.contextMenuDetail.present
        /\ PositionsOf(PreProps.template, PreProps.selectedLabel) # {}
        /\ NewRectResolves
     THEN AutoOpened
     ELSE NotAutoOpened

\* Edit's menu was open and Right moved to an entry whose submenu is empty:
\* an empty context menu was opened for it and the index reset.
C13_WitnessOpensEmptySubmenu ==
  /\ LeftRightSelected
  /\ PreProps.selectedLabel = "Edit"
  /\ PreProps.contextMenuDetail.present
  /\ NewSubmenu = <<>>
  /\ AutoOpened
  /\ contextMenuDetail.present
  /\ contextMenuDetail.template = <<>>

-----------------------------------------------------------------------------
(* C14 *)

\* C14 as claimed: an Up/Down keydown with no context menu open either
\* opens the context menu with index 0, the selected item's rectangle
\* resolving, or dispatches no submenu index; an index is moved only when a
\* context menu is already open.
C14_AsClaimed ==
  (KeyHandled({"UP", "DOWN"}) /\ ~PreProps.contextMenuDetail.present)
  => \/ /\ Cardinality(PositionsOf(pre.items, PreProps.selectedLabel)) = 1
        /\ Len(Intents(log)) = 2
        /\ Intents(log)[1] = setSubmenuSelectedIndex(0)
        /\ Intents(log)[2].op = "setContextMenuDetail"
     \/ Dispatched("setSubmenuSelectedIndex") = <<>>

-----------------------------------------------------------------------------
(* C15 *)

\* The label whose submenu the indices of the last keydown apply to: the
\* newly selected label for Left/Right, the selected label for Up/Down.
IndexedLabel ==
  IF lastEvent.which \in {"LEFT", "RIGHT"} THEN NewLabel
  ELSE PreProps.selectedLabel

\* C15 as claimed: every submenu index the keyboard handler dispatches is a
\* position of the visible non-separator entries of the submenu it applies
\* to (0 <= index < their count), whatever the template and the incoming
\* selectedIndex.
C15_AsClaimed ==
  KeyHandled({"LEFT", "RIGHT", "UP", "DOWN"})
  => \A k \in DOMAIN Dispatched("setSubmenuSelectedIndex") :
       LET index == Dispatched("setSubmenuSelectedIndex")[k].index
       IN  /\ 0 <= index
           /\ index < VisibleCount(PreProps.template, IndexedLabel)

-----------------------------------------------------------------------------
(* C16 *)

\* C16 as claimed: whenever a context menu opened by this component is
\* displayed, a label is selected and the menu shows the submenu of an entry
\* with that label.
C16_AsClaimed ==
  (contextMenuDetail.present /\ contextMenuDetail.owner = "menubar")
  => /\ selectedLabel # NoLabel
     /\ \E i \in PositionsOf(template, selectedLabel) :
          Shows(contextMenuDetail, template[i].submenu)

-----------------------------------------------------------------------------
(* C17 *)

\* C17 as claimed: the label Enter dispatches with submenu-item-clicked is
\* the label of a visible non-separator entry of the selected submenu, for
\* every selectedIndex and every submenu.
C17_AsClaimed ==
  KeyHandled({"ENTER"})
  => \A k \in DOMAIN Dispatched("clickMenubarSubmenu") :
       LET submenu == selectedTemplate(PreProps).submenu
       IN  \E i \in KeptPositions(submenu) :
             submenu[i].label = Dispatched("clickMenubarSubmenu")[k].label

-----------------------------------------------------------------------------
(* C18 *)

\* The props after a keydown of which on a mounted Menubar with props p, the
\* intents applied by the store and the items rendered from p.
Press(p, which) == ReduceAll(p, onKeyDown(p, Dom(render(p)), which))

\* The labels selected by k successive keydowns of which, each applied
\* before the next.
RECURSIVE Orbit(_, _, _)
Orbit(p, which, k) ==
  IF k = 0 THEN <<>>
  ELSE LET q == Press(p, which)
       IN  <<q.selectedLabel>> \o Orbit(q, which, k - 1)

\* From props p: Right then Left and Left then Right restore selectedLabel,
\* and as many Rights as the template has entries select every entry's label
\* once and end on the starting label.
FullCycle(p) ==
  LET t == p.template
      n == Len(t)
      o == Orbit(p, "RIGHT", n)
  IN  /\ Press(Press(p, "RIGHT"), "LEFT").selectedLabel = p.selectedLabel
      /\ Press(Press(p, "LEFT"), "RIGHT").selectedLabel = p.selectedLabel
      /\ o[n] = p.selectedLabel
      /\ \A i \in DOMAIN t :
           Cardinality({ k \in 1..n : o[k] = t[i].label })
             = Cardinality(PositionsOf(t, t[i].label))

\* C18 as claimed: top-level navigation is a full cycle for every template
\* of n >= 1 entries and a selectedLabel present in it, repeated labels
\* included.
C18_AsClaimed ==
  (mounted /\ PositionsOf(template, selectedLabel) # {}) => FullCycle(Props)

\* C18, amended: for every template of n >= 1 entries with unique labels and
\* a selectedLabel present in it, with each dispatched label applied before
\* the next key, Right then Left and Left then Right restore selectedLabel,
\* and n Right presses select every entry once and return to the start.
C18_FullCycleUniqueLabels ==
  (/\ mounted
   /\ UniqueLabels(template)
   /\ PositionsOf(template, selectedLabel) # {})
  => FullCycle(Props)

\* [File, Edit, View]: Left from File went to View, and three Rights from
\* View go File, Edit, View.
C18_WitnessThreeRights ==
  /\ KeyHandled({"LEFT"})
  /\ template = <<FileEntry, EditEntry, ViewEntry>>
  /\ PreProps.selectedLabel = "File"
  /\ selectedLabel = "View"
  /\ Orbit(Props, "RIGHT", 3) = <<"File", "Edit", "View">>

====
